---- MODULE Spec2Model ----
(***************************************************************************)
(* Stepper motion engine of stepper.c: the per-motor device record, the    *)
(* timer tick (STEPPER_TimerClockCallback), the move planners              *)
(* (STEPPER_MoveClockDegreeAbs, STEPPER_MoveClockDegreeRel,                *)
(* STEPPER_MoveMotorStepsRel, STEPPER_MoveMotorDegreeRel) and the sensor   *)
(* polling loop of the homing controller (STEPPER_MoveHandOnSensor).       *)
(***************************************************************************)
EXTENDS Integers, Sequences, FiniteSets, TLC

VARIABLES
  mot,        \* the STEPPER_Device_t record of one motor
  ret,        \* return value of the last STEPPER_TimerClockCallback; FALSE when
              \* the last operation was not a tick
  stepCalls,  \* directions passed to stepFn by the last operation, in order
  op,         \* name of the last operation executed
  plan,       \* what the last planner call requested and computed (history)
  ticks,      \* tick invocations since the last planner call (capped)
  allTrue,    \* every tick counted in `ticks` returned true
  moved,      \* stepFn calls and net displacement since the last planner call
  hom,        \* activation record of STEPPER_MoveHandOnSensor
  zero,       \* activation record of STEPPER_ZeroHand / STEPPER_SetOffsetFrom12
  absCall     \* activation record of a STEPPER_MoveClockDegreeAbs call that
              \* a timer interrupt can cut into

vars == <<mot, ret, stepCalls, op, plan, ticks, allTrue, moved, hom, zero, absCall>>

(***************************************************************************)
(* Program constants                                                       *)
(***************************************************************************)
STEPPER_ACCEL_HIGHEST_POS == 300

\* stepperConfig.h is not part of the sources; the value is the one the
\* specification's scenario uses for stepsPerRevolution.
STEPPER_CLOCK_360_STEPS == 720

STEPPER_MOVE_MODE_SHORT == "SHORT"
STEPPER_MOVE_MODE_CW == "CW"
STEPPER_MOVE_MODE_CCW == "CCW"
Modes == {STEPPER_MOVE_MODE_SHORT, STEPPER_MOVE_MODE_CW, STEPPER_MOVE_MODE_CCW}

ERR_OK == "ERR_OK"
ERR_UNDERFLOW == "ERR_UNDERFLOW"
ERR_FAILED == "ERR_FAILED"

(***************************************************************************)
(* Bounds of the model                                                     *)
(***************************************************************************)
MaxPos == 4       \* Spec: moves are explored while |pos + doSteps| <= MaxPos
MaxDelay == 2     \* Spec: caller-supplied delays are 0 and MaxDelay
MaxTimeout == 6   \* SpecHoming: timeoutms is -1..MaxTimeout
MaxWait == 3      \* SpecHoming: waitms is 1..MaxWait
NofMotors == 2    \* SpecHoming: number of motors homed together

(***************************************************************************)
(* C integer arithmetic                                                    *)
(***************************************************************************)
Abs(x) == IF x < 0 THEN -x ELSE x

\* C's / truncates toward zero (divisor positive here)
CDiv(a, b) == IF a >= 0 THEN a \div b ELSE -((-a) \div b)

\* C's % has the sign of the dividend
CMod(a, b) == a - b * CDiv(a, b)

\* conversion of a value to int16_t (delay, delayCntr)
ToInt16(x) == ((x + 32768) % 65536) - 32768

\* pos, doSteps and accelStepCntr are int32_t; the positions and step counts
\* explored stay far inside that range, so their arithmetic is exact.

(***************************************************************************)
(* Device record                                                           *)
(***************************************************************************)
InitDevice ==
  [pos |-> 0, doSteps |-> 0, delay |-> 0, delayCntr |-> 0,
   accelStepCntr |-> 0, speedup |-> FALSE, slowdown |-> FALSE]

STEPPER_IsIdle(m) == m.doSteps = 0

\* AccelDelay with the first band reaching up to 100
AccelDelayCoarse(m, steps) ==
  IF steps <= 100 THEN [m EXCEPT !.delayCntr = ToInt16(@ + 10)]
  ELSE IF steps <= 150 THEN [m EXCEPT !.delayCntr = ToInt16(@ + 5)]
  ELSE IF steps <= 250 THEN [m EXCEPT !.delayCntr = ToInt16(@ + 3)]
  ELSE IF steps <= STEPPER_ACCEL_HIGHEST_POS
         THEN [m EXCEPT !.delayCntr = ToInt16(@ + 1)]
         ELSE m

\* AccelDelay: the ticks added to delayCntr for ramp counter `steps`
AccelDelay(m, steps) ==
  IF steps <= STEPPER_ACCEL_HIGHEST_POS
    THEN IF steps <= 50 THEN [m EXCEPT !.delayCntr = ToInt16(@ + 10)]
         ELSE IF steps <= 100 THEN [m EXCEPT !.delayCntr = ToInt16(@ + 7)]
         ELSE IF steps <= 150 THEN [m EXCEPT !.delayCntr = ToInt16(@ + 5)]
         ELSE IF steps <= 250 THEN [m EXCEPT !.delayCntr = ToInt16(@ + 3)]
         ELSE IF steps <= STEPPER_ACCEL_HIGHEST_POS
                THEN [m EXCEPT !.delayCntr = ToInt16(@ + 1)]
                ELSE m
    ELSE m

\* DoStep with the backward branch counting doSteps the wrong way
DoStepWrongWay(m) ==
  IF m.doSteps > 0
    THEN [m EXCEPT !.pos = @ + 1, !.doSteps = @ - 1]
    ELSE IF m.doSteps < 0
      THEN [m EXCEPT !.pos = @ - 1, !.doSteps = @ - 1]
      ELSE m

\* lines 166-174: the physical step
DoStep(m) ==
  IF m.doSteps > 0
    THEN [m EXCEPT !.pos = @ + 1, !.doSteps = @ - 1]
    ELSE IF m.doSteps < 0
      THEN [m EXCEPT !.pos = @ - 1, !.doSteps = @ + 1]
      ELSE m

StepDirs(m) ==
  IF m.doSteps > 0 THEN <<1>> ELSE IF m.doSteps < 0 THEN <<-1>> ELSE <<>>

\* Ramp with the accelerating branch counting every second step only
RampSlowCount(m) ==
  IF m.speedup \/ m.slowdown
    THEN LET stepsToGo == Abs(m.doSteps) IN
         IF m.speedup /\ stepsToGo > STEPPER_ACCEL_HIGHEST_POS
           THEN LET a == IF m.accelStepCntr <= STEPPER_ACCEL_HIGHEST_POS
                            /\ stepsToGo % 2 = 0
                           THEN m.accelStepCntr + 1 ELSE m.accelStepCntr
                IN AccelDelay([m EXCEPT !.accelStepCntr = a], a)
           ELSE IF m.slowdown /\ stepsToGo < STEPPER_ACCEL_HIGHEST_POS
             THEN LET a1 == IF m.accelStepCntr >= 0
                              THEN m.accelStepCntr - 1 ELSE m.accelStepCntr
                      a == a1 - 1
                  IN AccelDelay([m EXCEPT !.accelStepCntr = a], a)
             ELSE m
    ELSE m

\* lines 176-195: ramp handling after the reload of delayCntr
Ramp(m) ==
  IF m.speedup \/ m.slowdown
    THEN LET stepsToGo == Abs(m.doSteps) IN
         IF m.speedup /\ stepsToGo > STEPPER_ACCEL_HIGHEST_POS
           THEN LET a == IF m.accelStepCntr <= STEPPER_ACCEL_HIGHEST_POS
                           THEN m.accelStepCntr + 1 ELSE m.accelStepCntr
                IN AccelDelay([m EXCEPT !.accelStepCntr = a], a)
           ELSE IF m.slowdown /\ stepsToGo < STEPPER_ACCEL_HIGHEST_POS
             THEN LET a1 == IF m.accelStepCntr >= 0
                              THEN m.accelStepCntr - 1 ELSE m.accelStepCntr
                      a == a1 - 1
                  IN AccelDelay([m EXCEPT !.accelStepCntr = a], a)
             ELSE m
    ELSE m

\* TimerClockCallback reloading delayCntr with delay + 1
TimerClockCallbackLateReload(m) ==
  IF m.delayCntr = 0
    THEN IF m.doSteps # 0
      THEN [mot |-> Ramp([DoStep(m) EXCEPT !.delayCntr = m.delay + 1]),
            ret |-> TRUE, calls |-> StepDirs(m)]
      ELSE [mot |-> m, ret |-> FALSE, calls |-> <<>>]
    ELSE [mot |-> [m EXCEPT !.delayCntr = ToInt16(@ - 1)],
          ret |-> TRUE, calls |-> <<>>]

\* TimerClockCallback that never counts the delay down
TimerClockCallbackStuck(m) ==
  IF m.delayCntr = 0
    THEN IF m.doSteps # 0
      THEN [mot |-> Ramp([DoStep(m) EXCEPT !.delayCntr = m.delay]),
            ret |-> TRUE, calls |-> StepDirs(m)]
      ELSE [mot |-> m, ret |-> FALSE, calls |-> <<>>]
    ELSE [mot |-> m, ret |-> TRUE, calls |-> <<>>]

\* TimerClockCallback clearing the delay counter in one tick
TimerClockCallbackNoWait(m) ==
  IF m.delayCntr = 0
    THEN IF m.doSteps # 0
      THEN [mot |-> Ramp([DoStep(m) EXCEPT !.delayCntr = m.delay]),
            ret |-> TRUE, calls |-> StepDirs(m)]
      ELSE [mot |-> m, ret |-> FALSE, calls |-> <<>>]
    ELSE [mot |-> [m EXCEPT !.delayCntr = 0],
          ret |-> TRUE, calls |-> <<>>]

\* STEPPER_TimerClockCallback as a function of the device record:
\* the new record, the return value and the stepFn calls made
TimerClockCallback(m) ==
  IF m.delayCntr = 0
    THEN IF m.doSteps # 0
      THEN [mot |-> Ramp([DoStep(m) EXCEPT !.delayCntr = m.delay]),
            ret |-> TRUE, calls |-> StepDirs(m)]
      ELSE [mot |-> m, ret |-> FALSE, calls |-> <<>>]
    ELSE [mot |-> [m EXCEPT !.delayCntr = ToInt16(@ - 1)],
          ret |-> TRUE, calls |-> <<>>]

(***************************************************************************)
(* Move planner                                                            *)
(***************************************************************************)
\* lines 270-273
NormalizeDegree(degree) ==
  CMod(IF degree < 0 THEN 360 + degree ELSE degree, 360)

\* line 274
TargetPos(degree) == CDiv(STEPPER_CLOCK_360_STEPS * degree, 360)

\* lines 275-279
CurrPos(pos) ==
  LET c == CMod(pos, STEPPER_CLOCK_360_STEPS)
  IN IF c < 0 THEN STEPPER_CLOCK_360_STEPS + c ELSE c

\* ModeSteps with the CW wrap-around subtracting a revolution
ModeStepsWrongWrap(targetPos, currPos, mode) ==
  LET steps == targetPos - currPos IN
  IF mode = STEPPER_MOVE_MODE_CW
    THEN IF steps < 0 THEN STEPPER_CLOCK_360_STEPS + steps + 1 ELSE steps
    ELSE IF mode = STEPPER_MOVE_MODE_CCW
      THEN IF steps > 0 THEN -STEPPER_CLOCK_360_STEPS + steps ELSE steps
      ELSE IF steps > STEPPER_CLOCK_360_STEPS \div 2
        THEN -(STEPPER_CLOCK_360_STEPS - steps)
        ELSE IF steps < -(STEPPER_CLOCK_360_STEPS \div 2)
          THEN -(-STEPPER_CLOCK_360_STEPS - steps)
          ELSE steps

\* lines 280-297
ModeSteps(targetPos, currPos, mode) ==
  LET steps == targetPos - currPos IN
  IF mode = STEPPER_MOVE_MODE_CW
    THEN IF steps < 0 THEN STEPPER_CLOCK_360_STEPS + steps ELSE steps
    ELSE IF mode = STEPPER_MOVE_MODE_CCW
      THEN IF steps > 0 THEN -STEPPER_CLOCK_360_STEPS + steps ELSE steps
      ELSE IF steps > STEPPER_CLOCK_360_STEPS \div 2
        THEN -(STEPPER_CLOCK_360_STEPS - steps)
        ELSE IF steps < -(STEPPER_CLOCK_360_STEPS \div 2)
          THEN -(-STEPPER_CLOCK_360_STEPS - steps)
          ELSE steps

\* the planner adding the new steps to the steps still to do
MoveClockDegreeAbsAdding(m, degree, mode, delay, speedUp, slowDown) ==
  [m EXCEPT
     !.doSteps = @ + ModeSteps(TargetPos(NormalizeDegree(degree)), CurrPos(m.pos), mode),
     !.accelStepCntr = 0,
     !.delay = ToInt16(delay),
     !.speedup = speedUp,
     !.slowdown = slowDown]

\* STEPPER_MoveClockDegreeAbs on the device record
MoveClockDegreeAbs(m, degree, mode, delay, speedUp, slowDown) ==
  [m EXCEPT
     !.doSteps = ModeSteps(TargetPos(NormalizeDegree(degree)), CurrPos(m.pos), mode),
     !.accelStepCntr = 0,
     !.delay = ToInt16(delay),
     !.speedup = speedUp,
     !.slowdown = slowDown]

\* the relative planner clearing the ramp flags
MoveMotorStepsRelPlain(m, steps, delay) ==
  [m EXCEPT !.doSteps = steps, !.accelStepCntr = 0, !.delay = ToInt16(delay),
            !.speedup = FALSE, !.slowdown = FALSE]

\* the relative planner adding the new steps to the steps still to do
MoveMotorStepsRelAdding(m, steps, delay) ==
  [m EXCEPT !.doSteps = @ + steps, !.accelStepCntr = 0, !.delay = ToInt16(delay)]

\* STEPPER_MoveMotorStepsRel on the device record
MoveMotorStepsRel(m, steps, delay) ==
  [m EXCEPT !.doSteps = steps, !.accelStepCntr = 0, !.delay = ToInt16(delay)]

\* lines 319-323 and 334-338: degrees to steps, sign-preserving
DegreeToSteps(degree) ==
  IF degree >= 0
    THEN CDiv(STEPPER_CLOCK_360_STEPS * degree, 360)
    ELSE CDiv(-(STEPPER_CLOCK_360_STEPS * (-degree)), 360)

\* STEPPER_MoveMotorDegreeRel on the device record
MoveMotorDegreeRel(m, degree, delay) ==
  MoveMotorStepsRel(m, DegreeToSteps(degree), delay)

\* STEPPER_MoveClockDegreeRel on the device record
MoveClockDegreeRel(m, degree, mode, delay, speedUp, slowDown) ==
  [m EXCEPT
     !.doSteps = DegreeToSteps(degree),
     !.accelStepCntr = 0,
     !.delay = ToInt16(delay),
     !.speedup = speedUp,
     !.slowdown = slowDown]

(***************************************************************************)
(* History of the last planner call                                        *)
(***************************************************************************)
NoPlan ==
  [kind |-> "none", degree |-> 0, mode |-> "none", idle |-> TRUE, doSteps0 |-> 0,
   steps |-> 0]

\* no STEPPER_MoveClockDegreeAbs call is under way; pc names the statement
\* the call executes next, steps is its local variable
NoCall == [pc |-> "none", degree |-> 0, mode |-> "none", delay |-> 0,
           speedUp |-> FALSE, slowDown |-> FALSE, steps |-> 0, idle |-> TRUE]

\* n, disp: the stepFn calls made since the last planner call and the sum of
\* their directions; pos0: the position at that call; gap: the ticks without
\* a step since the last step made after that call
NoMoved == [n |-> 0, disp |-> 0, pos0 |-> 0, gap |-> 0]

\* sum of the directions passed to stepFn
Displacement(calls) == IF calls = <<>> THEN 0 ELSE calls[1]

WasIdle(m) == STEPPER_IsIdle(m) /\ m.delayCntr = 0

(***************************************************************************)
(* STEPPER_MoveHandOnSensor                                                *)
(***************************************************************************)
Motors == 1..NofMotors

\* line 374 with the exit taken when the timeout reaches 0
LoopBreaksAtZero(done, timeoutms) == done \/ timeoutms <= 0

\* line 374 with the exit taken only when the sensors match
LoopBreaksWhenDone(done, timeoutms) == done

\* line 374: the condition that leaves the polling loop
LoopBreaks(done, timeoutms) == done \/ timeoutms < 0

\* the result taken from the final sensor check instead of the timeout
HandOnSensorResultCheck(timeoutms) == IF timeoutms < -1 THEN ERR_UNDERFLOW ELSE ERR_OK

\* lines 362 and 385-388: the result returned
HandOnSensorResult(timeoutms) == IF timeoutms < 0 THEN ERR_UNDERFLOW ELSE ERR_OK

\* lines 368-373: all motors read the goal
AllOnGoal(sensed, onSensor) == \A i \in Motors : sensed[i] = onSensor

\* the sensor readings before any sensor has been read
NoReading == [i \in Motors |-> FALSE]

\* lines 377-381 from motor i on: the calls of STEPPER_MoveMotorStepsRel made,
\* in the order of the loop
RECURSIVE CommandsFrom(_, _, _, _)
CommandsFrom(i, sensed, onSensor, stepSize) ==
  IF i > NofMotors
    THEN <<>>
    ELSE (IF sensed[i] # onSensor
            THEN <<[motor |-> i, steps |-> stepSize]>>
            ELSE <<>>) \o CommandsFrom(i + 1, sensed, onSensor, stepSize)

\* the loop of lines 377-381 moving every motor, on its goal or not
CommandedAll(sensed, onSensor, stepSize) ==
  [i \in Motors |-> [motor |-> i, steps |-> stepSize]]

\* lines 377-381: the relative moves of stepSize issued in one round, for the
\* sensor readings taken in that loop
Commanded(sensed, onSensor, stepSize) ==
  CommandsFrom(1, sensed, onSensor, stepSize)

NoHoming ==
  [pc |-> "off", onSensor |-> FALSE, stepSize |-> 0, timeoutms0 |-> 0,
   timeoutms |-> 0, waitms |-> 0, polls |-> 0, done |-> FALSE, cmds |-> <<>>,
   sensed |-> NoReading, res |-> "none"]

\* the persisted data: the zero offsets per motor, and the other fields
NoData == [zeroOffsets |-> [i \in Motors |-> 0], other |-> 0]

\* fn, pc, res: the function called, where it stands, its result variable;
\* results: what the searches returned; log: the steps made, in order;
\* calls: goal and step size of the searches called; cmds: the relative moves
\* issued by the last step of the function itself, and sensed: the sensor
\* readings they were decided on; setpos: the calls of
\* X12_017_SetPos; measured: the driver positions read with X12_017_GetPos;
\* data0, written: the data copied from NVMC_GetDataPtr and the data passed
\* to NVMC_WriteConfig
NoZero ==
  [fn |-> "none", pc |-> "off", res |-> "none", results |-> <<>>, log |-> <<>>,
   calls |-> <<>>, cmds |-> <<>>, sensed |-> NoReading, setpos |-> <<>>,
   measured |-> [i \in Motors |-> 0], data0 |-> NoData, written |-> NoData]

(***************************************************************************)
(* Actions                                                                 *)
(***************************************************************************)
Init ==
  /\ mot = InitDevice
  /\ ret = FALSE
  /\ stepCalls = <<>>
  /\ op = "init"
  /\ plan = NoPlan
  /\ ticks = 0
  /\ allTrue = TRUE
  /\ moved = NoMoved
  /\ hom = NoHoming
  /\ zero = NoZero
  /\ absCall = NoCall

\* one timer period: STEPPER_TimerClockCallback(mot)
STEPPER_TimerClockCallback ==
  LET r == TimerClockCallback(mot) IN
  /\ mot' = r.mot
  /\ ret' = r.ret
  /\ stepCalls' = r.calls
  /\ op' = "tick"
  /\ IF ticks <= Abs(plan.doSteps0)
       THEN ticks' = ticks + 1 /\ allTrue' = (allTrue /\ r.ret)
       ELSE UNCHANGED <<ticks, allTrue>>
  /\ moved' = [moved EXCEPT
                 !.n = @ + Len(r.calls),
                 !.disp = @ + Displacement(r.calls),
                 !.gap = IF r.calls # <<>> THEN 0
                         ELSE IF moved.n > 0 /\ ~WasIdle(mot) THEN @ + 1
                         ELSE @]
  /\ UNCHANGED <<plan, hom, zero, absCall>>

\* a planner call that leaves the device as m; `steps` is the step count the
\* call asked for
Planned(name, m, kind, degree, mode, steps) ==
  /\ op' = name
  /\ mot' = m
  /\ plan' = [kind |-> kind, degree |-> degree, mode |-> mode,
              idle |-> WasIdle(mot), doSteps0 |-> m.doSteps,
              steps |-> steps]
  /\ ret' = FALSE
  /\ stepCalls' = <<>>
  /\ ticks' = 0
  /\ allTrue' = TRUE
  /\ moved' = [NoMoved EXCEPT !.pos0 = m.pos]
  /\ UNCHANGED <<hom, zero, absCall>>

STEPPER_MoveClockDegreeAbs(degree, mode, delay, speedUp, slowDown) ==
  Planned("MoveClockDegreeAbs",
          MoveClockDegreeAbs(mot, degree, mode, delay, speedUp, slowDown),
          "abs", degree, mode,
          ModeSteps(TargetPos(NormalizeDegree(degree)), CurrPos(mot.pos), mode))

STEPPER_MoveMotorStepsRel(steps, delay) ==
  Planned("MoveMotorStepsRel", MoveMotorStepsRel(mot, steps, delay),
          "rel", 0, "none", steps)

STEPPER_MoveMotorDegreeRel(degree, delay) ==
  Planned("MoveMotorDegreeRel", MoveMotorDegreeRel(mot, degree, delay),
          "rel", 0, "none", DegreeToSteps(degree))

STEPPER_MoveClockDegreeRel(degree, mode, delay, speedUp, slowDown) ==
  Planned("MoveClockDegreeRel",
          MoveClockDegreeRel(mot, degree, mode, delay, speedUp, slowDown),
          "rel", 0, "none", DegreeToSteps(degree))

(***************************************************************************)
(* Spec: one device, planner calls at any time, short moves                *)
(***************************************************************************)
Delays == {0, MaxDelay}
\* <<delay, speedUp, slowDown>> of a clock move
Profiles == {<<0, FALSE, FALSE>>, <<0, FALSE, TRUE>>,
             <<MaxDelay, TRUE, FALSE>>, <<MaxDelay, TRUE, TRUE>>}
Degrees == {-361, -1, 0, 1, 362}
RelDegrees == {-1, 0, 1}
RelSteps == {-3, -1, 0, 2}

\* the armed move stays inside the explored window of positions
InWindow(m) == Abs(m.pos + m.doSteps) <= MaxPos

CallMoveClockDegreeAbs ==
  \E degree \in Degrees, mode \in Modes, p \in Profiles :
    /\ InWindow(MoveClockDegreeAbs(mot, degree, mode, p[1], p[2], p[3]))
    /\ STEPPER_MoveClockDegreeAbs(degree, mode, p[1], p[2], p[3])

CallMoveClockDegreeRel ==
  \E degree \in RelDegrees, p \in Profiles :
    /\ InWindow(MoveClockDegreeRel(mot, degree, STEPPER_MOVE_MODE_CW, p[1], p[2], p[3]))
    /\ STEPPER_MoveClockDegreeRel(degree, STEPPER_MOVE_MODE_CW, p[1], p[2], p[3])

CallMoveMotorStepsRel ==
  \E steps \in RelSteps, delay \in Delays :
    /\ InWindow(MoveMotorStepsRel(mot, steps, delay))
    /\ STEPPER_MoveMotorStepsRel(steps, delay)

CallMoveMotorDegreeRel ==
  \E degree \in RelDegrees, delay \in Delays :
    /\ InWindow(MoveMotorDegreeRel(mot, degree, delay))
    /\ STEPPER_MoveMotorDegreeRel(degree, delay)

Next ==
  \/ STEPPER_TimerClockCallback
  \/ CallMoveClockDegreeAbs
  \/ CallMoveClockDegreeRel
  \/ CallMoveMotorStepsRel
  \/ CallMoveMotorDegreeRel

Spec == Init /\ [][Next]_vars

(***************************************************************************)
(* SpecRun: one absolute move armed on an idle device standing at a        *)
(* sampled position, then run by the timer                                 *)
(***************************************************************************)
RunPositions == {-725, -720, -541, -360, -1, 0, 1, 180, 359, 600, 719}
RunDegrees == {-719, -450, -361, -360, -90, -1, 0, 1, 90, 180, 270, 359, 450}

InitRun ==
  /\ \E p \in RunPositions : mot = [InitDevice EXCEPT !.pos = p]
  /\ ret = FALSE
  /\ stepCalls = <<>>
  /\ op = "init"
  /\ plan = NoPlan
  /\ ticks = 0
  /\ allTrue = TRUE
  /\ moved = NoMoved
  /\ hom = NoHoming
  /\ zero = NoZero
  /\ absCall = NoCall

RunMoveClockDegreeAbs ==
  /\ op = "init"
  /\ \E degree \in RunDegrees, mode \in Modes :
       STEPPER_MoveClockDegreeAbs(degree, mode, 0, FALSE, FALSE)

RunTimerClockCallback ==
  /\ op # "init"
  /\ STEPPER_TimerClockCallback

NextRun ==
  \/ RunMoveClockDegreeAbs
  \/ RunTimerClockCallback

SpecRun == InitRun /\ [][NextRun]_vars

(***************************************************************************)
(* SpecPreempt: a first move without delay or ramp, and planner calls made *)
(* at any tick of it, before or after it has completed                     *)
(***************************************************************************)
FirstSteps == {-3, 2, MaxPos}

\* no delay is counting down and none can start: while this holds since
\* construction, the device is busy only by having steps left to do
Quiet(m) == m.delay = 0 /\ m.delayCntr = 0 /\ ~m.speedup /\ ~m.slowdown

PreemptArm ==
  /\ op = "init"
  /\ \E steps \in FirstSteps : STEPPER_MoveMotorStepsRel(steps, 0)

PreemptTimerClockCallback ==
  /\ op # "init"
  /\ STEPPER_TimerClockCallback

PreemptMoveMotorStepsRel ==
  /\ op # "init" /\ Quiet(mot)
  /\ \E steps \in RelSteps, delay \in Delays :
       /\ InWindow(MoveMotorStepsRel(mot, steps, delay))
       /\ STEPPER_MoveMotorStepsRel(steps, delay)

PreemptMoveClockDegreeAbs ==
  /\ op # "init" /\ Quiet(mot)
  /\ \E degree \in Degrees, mode \in Modes, p \in Profiles :
       /\ InWindow(MoveClockDegreeAbs(mot, degree, mode, p[1], p[2], p[3]))
       /\ STEPPER_MoveClockDegreeAbs(degree, mode, p[1], p[2], p[3])

\* the absolute move just planned is planned again with the same arguments
PreemptMoveClockDegreeAbsAgain ==
  /\ op = "MoveClockDegreeAbs"
  /\ Planned("MoveClockDegreeAbsAgain",
             MoveClockDegreeAbs(mot, plan.degree, plan.mode,
                                mot.delay, mot.speedup, mot.slowdown),
             "abs", plan.degree, plan.mode,
             ModeSteps(TargetPos(NormalizeDegree(plan.degree)),
                       CurrPos(mot.pos), plan.mode))

NextPreempt ==
  \/ PreemptArm
  \/ PreemptTimerClockCallback
  \/ PreemptMoveMotorStepsRel
  \/ PreemptMoveClockDegreeAbs
  \/ PreemptMoveClockDegreeAbsAgain

SpecPreempt == Init /\ [][NextPreempt]_vars

(***************************************************************************)
(* STEPPER_MoveClockDegreeAbs cut into by the timer interrupt               *)
(*                                                                         *)
(* The planner runs in task context and the tick in interrupt context, and *)
(* the planner takes no lock: a tick can run between any two of its        *)
(* accesses of the device record.  The call is therefore split at these    *)
(* accesses: the read of pos (line 275, with the computation of the local  *)
(* steps that follows from it) and the writes of lines 298 to 302, one     *)
(* action each.  One call is made in a behaviour, on an idle device or on  *)
(* one that a relative move has set going.                                 *)
(***************************************************************************)
RaceDegrees == {-1, 0, 1, 2}

\* the statement of the call that follows the one at pc
NextStatement(pc) ==
  CASE pc = "doSteps" -> "accelStepCntr"
    [] pc = "accelStepCntr" -> "delay"
    [] pc = "delay" -> "speedup"
    [] pc = "speedup" -> "slowdown"
    [] pc = "slowdown" -> "done"

\* one write of the call: the record becomes m
AbsWrite(pc, m) ==
  /\ absCall.pc = pc
  /\ mot' = m
  /\ absCall' = [absCall EXCEPT !.pc = NextStatement(pc)]
  /\ op' = "MoveClockDegreeAbs." \o pc
  /\ UNCHANGED <<ret, stepCalls, plan, ticks, allTrue, moved, hom, zero>>

RaceArm ==
  /\ plan.kind = "none" /\ absCall.pc = "none"
  /\ \E steps \in FirstSteps, delay \in Delays :
       STEPPER_MoveMotorStepsRel(steps, delay)

RaceTimerClockCallback == STEPPER_TimerClockCallback

\* lines 266-297: degree is normalised, pos is read and steps computed
AbsRead ==
  /\ absCall.pc = "none"
  /\ \E degree \in RaceDegrees, mode \in Modes, p \in Profiles :
       LET steps == ModeSteps(TargetPos(NormalizeDegree(degree)),
                              CurrPos(mot.pos), mode)
       IN /\ InWindow([mot EXCEPT !.doSteps = steps])
          /\ absCall' = [pc |-> "doSteps", degree |-> degree, mode |-> mode,
                         delay |-> p[1], speedUp |-> p[2], slowDown |-> p[3],
                         steps |-> steps, idle |-> STEPPER_IsIdle(mot)]
  /\ op' = "MoveClockDegreeAbs.read"
  /\ UNCHANGED <<mot, ret, stepCalls, plan, ticks, allTrue, moved, hom, zero>>

\* line 298
AbsWriteDoSteps ==
  AbsWrite("doSteps", [mot EXCEPT !.doSteps = absCall.steps])

\* line 299
AbsWriteAccelStepCntr ==
  AbsWrite("accelStepCntr", [mot EXCEPT !.accelStepCntr = 0])

\* line 300
AbsWriteDelay ==
  AbsWrite("delay", [mot EXCEPT !.delay = ToInt16(absCall.delay)])

\* line 301
AbsWriteSpeedup ==
  AbsWrite("speedup", [mot EXCEPT !.speedup = absCall.speedUp])

\* line 302
AbsWriteSlowdown ==
  AbsWrite("slowdown", [mot EXCEPT !.slowdown = absCall.slowDown])

NextRace ==
  \/ RaceArm
  \/ RaceTimerClockCallback
  \/ AbsRead
  \/ AbsWriteDoSteps
  \/ AbsWriteAccelStepCntr
  \/ AbsWriteDelay
  \/ AbsWriteSpeedup
  \/ AbsWriteSlowdown

SpecRace == Init /\ [][NextRace]_vars

\* C26: after a STEPPER_MoveClockDegreeAbs call that ticks have cut into, a
\* device that has run out of steps stands on the target step of the call:
\* pos modulo STEPPER_CLOCK_360_STEPS is the step of the requested degree.
C26_LandsOnTargetInterrupted ==
  (absCall.pc = "done" /\ op = "tick" /\ STEPPER_IsIdle(mot)) =>
    CurrPos(mot.pos) = TargetPos(NormalizeDegree(absCall.degree))

\* the same for the calls made while the device had no steps left to do
C26_LandsOnTargetFromIdle ==
  (absCall.pc = "done" /\ op = "tick" /\ STEPPER_IsIdle(mot) /\ absCall.idle) =>
    CurrPos(mot.pos) = TargetPos(NormalizeDegree(absCall.degree))

\* a call made on an idle device, cut into by a tick, has run to its target
C26_FromIdleWitness ==
  /\ absCall.pc = "done" /\ op = "tick" /\ STEPPER_IsIdle(mot) /\ absCall.idle
  /\ absCall.degree = 1 /\ mot.pos = 2 /\ moved.n = 2

(***************************************************************************)
(* SpecRamp: one relative move of a fresh device, shorter or longer than   *)
(* the ramps, with every delay and ramp flag pair, run by a timer that     *)
(* keeps ticking                                                           *)
(***************************************************************************)
RampDegrees == {-310, -160, -1, 0, 1, 150, 151, 310}

RampArm ==
  /\ op = "init"
  /\ \E degree \in RampDegrees, delay \in Delays, speedUp \in BOOLEAN, slowDown \in BOOLEAN :
       STEPPER_MoveClockDegreeRel(degree, STEPPER_MOVE_MODE_CW, delay, speedUp, slowDown)

RampTimerClockCallback ==
  /\ op # "init"
  /\ STEPPER_TimerClockCallback

NextRamp ==
  \/ RampArm
  \/ RampTimerClockCallback

\* what a tick can change for its caller: the device, and the value returned
Observed == <<mot, op, op = "tick" /\ ret>>

\* the timer interrupt keeps calling the tick: a tick that changes the device
\* or returns another value than the tick before is not put off for ever
SpecRamp == Init /\ [][NextRamp]_vars /\ WF_Observed(RampTimerClockCallback)

(***************************************************************************)
(* Claims about the device and the tick                                    *)
(***************************************************************************)

\* C1: in every reachable state 0 <= delayCntr <= delay.
C1_DelayCntrInRange ==
  0 <= mot.delayCntr /\ mot.delayCntr <= mot.delay

\* C2: in every reachable state accelStepCntr lies in [0, ACCEL_HIGHEST_POS].
C2_AccelStepCntrInRange ==
  0 <= mot.accelStepCntr /\ mot.accelStepCntr <= STEPPER_ACCEL_HIGHEST_POS

\* C3: a tick returns true exactly when the device it was invoked on has
\* pending work (doSteps # 0), and false when that device is idle.
C3_TickReportsPendingWork ==
  [][op' = "tick" => (ret' = (~STEPPER_IsIdle(mot)))]_vars

\* C4: a tick executes a step only when entered with delayCntr = 0 and
\* doSteps # 0; then pos moves by exactly one in the direction of doSteps,
\* stepFn is called exactly once with that direction and doSteps moves by one
\* toward zero; any other tick leaves pos and doSteps alone and calls no stepFn.
C4_OneStepPerTick ==
  [][op' = "tick" =>
       IF mot.delayCntr = 0 /\ mot.doSteps # 0
         THEN LET dir == IF mot.doSteps > 0 THEN 1 ELSE -1 IN
              /\ mot'.pos = mot.pos + dir
              /\ stepCalls' = <<dir>>
              /\ mot'.doSteps = mot.doSteps - dir
              /\ Abs(mot'.doSteps) = Abs(mot.doSteps) - 1
         ELSE /\ mot'.pos = mot.pos
              /\ mot'.doSteps = mot.doSteps
              /\ stepCalls' = <<>>]_vars

C4_Witness ==
  op = "tick" /\ stepCalls = <<-1>> /\ mot.doSteps < 0 /\ mot.pos < 0

\* C5 as stated: after a move of doSteps0 steps is armed on an idle device,
\* exactly |doSteps0| ticks bring doSteps to 0, each of them returning true,
\* for every delay and every ramp-flag setting.
C5_Conservation ==
  (plan.kind # "none" /\ plan.idle /\ ticks = Abs(plan.doSteps0))
    => (mot.doSteps = 0 /\ allTrue)

\* C5 amended: the same, for moves armed with delay 0 while neither ramp flag
\* is set.
C5_ConservationNoDelay ==
  (/\ plan.kind # "none" /\ plan.idle /\ ticks = Abs(plan.doSteps0)
   /\ mot.delay = 0 /\ ~mot.speedup /\ ~mot.slowdown)
    => (mot.doSteps = 0 /\ allTrue)

C5_Witness ==
  /\ plan.kind # "none" /\ plan.idle /\ ticks = Abs(plan.doSteps0)
  /\ mot.delay = 0 /\ ~mot.speedup /\ ~mot.slowdown
  /\ Abs(plan.doSteps0) >= 3 /\ op = "tick" /\ mot.doSteps = 0

(***************************************************************************)
(* Claims about STEPPER_MoveClockDegreeAbs                                 *)
(***************************************************************************)
JustArmedAbs == op = "MoveClockDegreeAbs"

\* the degree in [0,360) that a requested degree denotes
DegreeOnDial(degree) == degree % 360

\* C6: mode CW arms doSteps >= 0 and mode CCW arms doSteps <= 0, for every
\* requested degree and every current position.
C6_DirectionOfMode ==
  JustArmedAbs =>
    /\ (plan.mode = STEPPER_MOVE_MODE_CW => mot.doSteps >= 0)
    /\ (plan.mode = STEPPER_MOVE_MODE_CCW => mot.doSteps <= 0)

\* C7: mode SHORTEST arms |doSteps| <= stepsPerRevolution/2, congruent to
\* targetStep - currentStep modulo stepsPerRevolution, and keeps a delta of
\* magnitude exactly stepsPerRevolution/2 unchanged.
C7_ShortestPath ==
  (JustArmedAbs /\ plan.mode = STEPPER_MOVE_MODE_SHORT) =>
    LET delta == (STEPPER_CLOCK_360_STEPS * DegreeOnDial(plan.degree)) \div 360
                   - CurrPos(mot.pos)
    IN /\ Abs(mot.doSteps) <= STEPPER_CLOCK_360_STEPS \div 2
       /\ (mot.doSteps - delta) % STEPPER_CLOCK_360_STEPS = 0
       /\ (Abs(delta) = STEPPER_CLOCK_360_STEPS \div 2 => mot.doSteps = delta)

\* C8: the armed delta lands on the target: (currentStep + doSteps) mod
\* stepsPerRevolution is stepsPerRevolution * d / 360 for the degree d in
\* [0,360) the request denotes, and when the move has run to completion pos mod
\* stepsPerRevolution is that step; from position 0, (90, CW) arms 180,
\* (-90, CW) arms 540 and (270, SHORTEST) arms -180.
C8_LandsOnTarget ==
  LET targetStep == (STEPPER_CLOCK_360_STEPS * DegreeOnDial(plan.degree)) \div 360 IN
  /\ JustArmedAbs =>
       /\ (CurrPos(mot.pos) + mot.doSteps) % STEPPER_CLOCK_360_STEPS = targetStep
       /\ (mot.pos = 0 /\ plan.degree = 90 /\ plan.mode = STEPPER_MOVE_MODE_CW)
            => mot.doSteps = 180
       /\ (mot.pos = 0 /\ plan.degree = -90 /\ plan.mode = STEPPER_MOVE_MODE_CW)
            => mot.doSteps = 540
       /\ (mot.pos = 0 /\ plan.degree = 270 /\ plan.mode = STEPPER_MOVE_MODE_SHORT)
            => mot.doSteps = -180
  /\ (plan.kind = "abs" /\ op = "tick" /\ STEPPER_IsIdle(mot))
       => mot.pos % STEPPER_CLOCK_360_STEPS = targetStep

C8_Witness ==
  /\ plan.kind = "abs" /\ op = "tick" /\ STEPPER_IsIdle(mot)
  /\ plan.degree = -450 /\ plan.mode = STEPPER_MOVE_MODE_CW
  /\ plan.doSteps0 < 0 /\ mot.pos = 540

\* C9: the degree is normalized into [0,360) and the target step computed
\* from it lies in [0, stepsPerRevolution), for every signed degree.
C9_NormalizedDegree ==
  JustArmedAbs =>
    /\ NormalizeDegree(plan.degree) \in 0..359
    /\ TargetPos(NormalizeDegree(plan.degree)) \in 0..(STEPPER_CLOCK_360_STEPS - 1)

(***************************************************************************)
(* Claims about preempting and repeated planner calls and about the ticks  *)
(* that make no step                                                       *)
(***************************************************************************)
\* C14: a planner call made while a move is in progress overwrites doSteps:
\* counted from that call, the tick engine has called stepFn
\* |steps asked for| - |steps left| times, always in the direction of the new
\* steps, so that once no steps are left it has made exactly the steps asked
\* for, wherever the preempted move stood.
C14_Overwrite ==
  (plan.kind # "none" /\ ~plan.idle) =>
    /\ moved.n = Abs(plan.steps) - Abs(mot.doSteps)
    /\ moved.disp = plan.steps - mot.doSteps
    /\ plan.steps >= 0 => mot.doSteps \in 0..plan.steps
    /\ plan.steps <= 0 => mot.doSteps \in plan.steps..0
    /\ STEPPER_IsIdle(mot) => moved.n = Abs(plan.steps)

C14_Witness ==
  /\ plan.kind # "none" /\ ~plan.idle
  /\ plan.steps = -3 /\ mot.pos > 0
  /\ op = "tick" /\ stepCalls = <<-1>>
  /\ STEPPER_IsIdle(mot) /\ moved.n = 3

\* C15: a move armed with any step count, delay >= 0 and ramp flags, run by a
\* timer that keeps ticking with no further planner call, comes to
\* doSteps = 0 with a tick that returns false, and every tick after a tick
\* that returned false changes nothing and returns false again.
C15_Completes ==
  /\ (op = "MoveClockDegreeRel") ~>
       (op = "tick" /\ ret = FALSE /\ STEPPER_IsIdle(mot) /\ mot.delayCntr = 0)
  /\ [][(op = "tick" /\ ret = FALSE) =>
          (mot' = mot /\ stepCalls' = <<>> /\ ret' = FALSE)]_vars

C15_Witness ==
  /\ op = "tick" /\ ret = FALSE /\ STEPPER_IsIdle(mot)
  /\ plan.steps = 620 /\ moved.n = 620 /\ mot.pos = 620
  /\ mot.delay = MaxDelay /\ mot.speedup /\ mot.slowdown

\* C16: STEPPER_MoveClockDegreeAbs called a second time with the arguments of
\* the call just before it, no tick in between, leaves every field of the
\* device as the first call left it.
C16_Idempotent ==
  [][op' = "MoveClockDegreeAbsAgain" => mot' = mot]_vars

C16_Witness ==
  /\ op = "MoveClockDegreeAbsAgain"
  /\ mot.doSteps # 0 /\ mot.pos # 0
  /\ mot.delay = MaxDelay /\ mot.speedup /\ mot.slowdown

\* C17: in a move armed with speedup, over every tick that leaves more than
\* STEPPER_ACCEL_HIGHEST_POS steps to go, accelStepCntr does not decrease,
\* and it rises by exactly one when the tick made a step and the counter was
\* still below STEPPER_ACCEL_HIGHEST_POS.
C17_RampMonotone ==
  [][(op' = "tick" /\ mot.speedup
         /\ Abs(mot'.doSteps) > STEPPER_ACCEL_HIGHEST_POS) =>
       /\ mot'.accelStepCntr >= mot.accelStepCntr
       /\ (stepCalls' # <<>> /\ mot.accelStepCntr < STEPPER_ACCEL_HIGHEST_POS)
            => mot'.accelStepCntr = mot.accelStepCntr + 1]_vars

C17_Witness ==
  /\ op = "tick" /\ stepCalls # <<>> /\ mot.speedup
  /\ Abs(mot.doSteps) > STEPPER_ACCEL_HIGHEST_POS
  /\ mot.accelStepCntr = STEPPER_ACCEL_HIGHEST_POS
  /\ moved.n = STEPPER_ACCEL_HIGHEST_POS

\* the ticks the claim adds for the ramp counter c
RampTicks(c) ==
  IF c <= 50 THEN 10
  ELSE IF c <= 100 THEN 7
  ELSE IF c <= 150 THEN 5
  ELSE IF c <= 250 THEN 3
  ELSE IF c <= 300 THEN 1
  ELSE 0

\* C18: a tick that makes a step and takes a ramp branch (speedup with more
\* than 300 steps left after the step, else slowdown with fewer than 300)
\* leaves delayCntr = delay + RampTicks(c) for the ramp counter c it has just
\* updated; a tick that makes a step and takes no ramp branch leaves
\* delayCntr = delay and the ramp counter as it was.
C18_RampDelay ==
  [][(op' = "tick" /\ stepCalls' # <<>>) =>
       LET remaining == Abs(mot'.doSteps)
           up == mot.speedup /\ remaining > 300
           down == ~up /\ mot.slowdown /\ remaining < 300
       IN IF up \/ down
            THEN mot'.delayCntr = mot.delay + RampTicks(mot'.accelStepCntr)
            ELSE /\ mot'.delayCntr = mot.delay
                 /\ mot'.accelStepCntr = mot.accelStepCntr]_vars

\* a step of the accelerating branch in the band of 5 ticks, and of the
\* slowing branch with the counter below 0
C18_Witness ==
  /\ op = "tick" /\ stepCalls # <<>>
  /\ mot.delay = MaxDelay /\ mot.slowdown
  /\ Abs(mot.doSteps) < 300 /\ mot.accelStepCntr < 0
  /\ mot.delayCntr = MaxDelay + 10

\* C24: every tick leaves pos + doSteps as it was; so after a planner call
\* the position has never moved by more than the steps armed, and when no
\* steps are left it has moved by exactly the steps armed.
C24_StepAccounting ==
  /\ [][op' = "tick" => mot'.pos + mot'.doSteps = mot.pos + mot.doSteps]_vars
  /\ [](plan.kind # "none" =>
          /\ mot.pos - moved.pos0 = plan.doSteps0 - mot.doSteps
          /\ Abs(mot.pos - moved.pos0) <= Abs(plan.doSteps0)
          /\ STEPPER_IsIdle(mot) => mot.pos - moved.pos0 = plan.doSteps0)

C24_Witness ==
  /\ op = "tick" /\ STEPPER_IsIdle(mot) /\ plan.kind = "abs"
  /\ plan.doSteps0 = -3 /\ moved.pos0 = 1 /\ mot.pos = -2
  /\ moved.n = 3 /\ mot.delay = MaxDelay

\* C27: STEPPER_MoveMotorStepsRel writes doSteps, accelStepCntr (to 0) and
\* delay only: pos, delayCntr, speedup and slowdown stay as the previous
\* move left them, so the steps of the relative move are ramped by the flags
\* of the move before.
C27_FrameOfStepsRel ==
  [][op' = "MoveMotorStepsRel" =>
       /\ mot'.doSteps = plan'.steps
       /\ mot'.accelStepCntr = 0
       /\ mot'.delay \in Delays
       /\ mot'.pos = mot.pos
       /\ mot'.delayCntr = mot.delayCntr
       /\ mot'.speedup = mot.speedup
       /\ mot'.slowdown = mot.slowdown]_vars

\* a step of a relative move of -3 steps (only STEPPER_MoveMotorStepsRel
\* arms an odd count) made with delay 0 and still slowed down by 10 ticks
C27_Witness ==
  /\ op = "tick" /\ stepCalls = <<-1>>
  /\ plan.kind = "rel" /\ plan.steps = -3
  /\ mot.slowdown /\ ~mot.speedup
  /\ mot.delay = 0 /\ mot.delayCntr = 10

\* C28: in a move with neither ramp flag set and delay d, every tick that
\* makes a step leaves delayCntr = d, and between two steps of the move that
\* follow each other there are d ticks that make no step: the steps are d + 1
\* tick invocations apart.
C28_StepPacing ==
  [][(op' = "tick" /\ stepCalls' # <<>> /\ ~mot.speedup /\ ~mot.slowdown) =>
       /\ mot'.delayCntr = mot.delay
       /\ moved.n > 0 => moved.gap = mot.delay]_vars

C28_Witness ==
  /\ op = "tick" /\ stepCalls # <<>> /\ ~mot.speedup /\ ~mot.slowdown
  /\ mot.delay = MaxDelay /\ mot.delayCntr = MaxDelay
  /\ moved.n >= 3 /\ moved.gap = 0

\* C19: a tick entered with delayCntr # 0 decrements delayCntr by one, leaves
\* every other field, makes no stepFn call and returns true; a tick entered
\* with delayCntr = 0 and doSteps = 0 changes no field, makes no stepFn call
\* and returns false.
C19_Frame ==
  [][op' = "tick" =>
       /\ mot.delayCntr # 0 =>
            /\ mot' = [mot EXCEPT !.delayCntr = @ - 1]
            /\ stepCalls' = <<>>
            /\ ret' = TRUE
       /\ (mot.delayCntr = 0 /\ mot.doSteps = 0) =>
            /\ mot' = mot
            /\ stepCalls' = <<>>
            /\ ret' = FALSE]_vars

\* both kinds of tick have happened: the move ran with a delay and the
\* device has come to rest
C19_Witness ==
  /\ op = "tick" /\ ret = FALSE /\ stepCalls = <<>>
  /\ mot.delay = MaxDelay /\ mot.delayCntr = 0 /\ mot.doSteps = 0
  /\ mot.pos # 0 /\ ticks > Abs(plan.doSteps0)

(***************************************************************************)
(* SpecHoming: one activation of STEPPER_MoveHandOnSensor; every read of   *)
(* a magnet sensor may return either value                                 *)
(***************************************************************************)
Timeouts == -1..MaxTimeout
Waits == 1..MaxWait
StepSizes == {-10, -1, 1, 10}

InitHoming ==
  /\ mot = InitDevice
  /\ ret = FALSE
  /\ stepCalls = <<>>
  /\ op = "init"
  /\ plan = NoPlan
  /\ ticks = 0
  /\ allTrue = TRUE
  /\ moved = NoMoved
  /\ zero = NoZero
  /\ absCall = NoCall
  /\ \E onSensor \in BOOLEAN, stepSize \in StepSizes, timeoutms \in Timeouts, waitms \in Waits :
       hom = [NoHoming EXCEPT !.pc = "loop", !.onSensor = onSensor,
                !.stepSize = stepSize, !.timeoutms0 = timeoutms,
                !.timeoutms = timeoutms, !.waitms = waitms]

\* lines 367-383: one round of the loop that does not break: the sensors are
\* checked, the motors off the goal are commanded, the wait elapses
MoveHandOnSensorPoll ==
  /\ hom.pc = "loop"
  /\ {sensed \in [Motors -> BOOLEAN] :
        ~LoopBreaks(AllOnGoal(sensed, hom.onSensor), hom.timeoutms)} # {}
  /\ \E sensedAgain \in [Motors -> BOOLEAN] :
       /\ hom' = [hom EXCEPT !.done = FALSE,
                     !.sensed = sensedAgain,
                     !.cmds = Commanded(sensedAgain, hom.onSensor, hom.stepSize),
                     !.timeoutms = @ - hom.waitms,
                     !.polls = @ + 1]
  /\ op' = "MoveHandOnSensorPoll"
  /\ UNCHANGED <<mot, ret, stepCalls, plan, ticks, allTrue, moved, zero, absCall>>

\* lines 367-376 and 385-388: the round that breaks, and the return
MoveHandOnSensorReturn ==
  /\ hom.pc = "loop"
  /\ \E sensed \in [Motors -> BOOLEAN] :
       /\ LoopBreaks(AllOnGoal(sensed, hom.onSensor), hom.timeoutms)
       /\ hom' = [hom EXCEPT !.pc = "returned",
                     !.done = AllOnGoal(sensed, hom.onSensor),
                     !.cmds = <<>>,
                     !.sensed = NoReading,
                     !.res = HandOnSensorResult(hom.timeoutms)]
  /\ op' = "MoveHandOnSensorReturn"
  /\ UNCHANGED <<mot, ret, stepCalls, plan, ticks, allTrue, moved, zero, absCall>>

NextHoming ==
  \/ MoveHandOnSensorPoll
  \/ MoveHandOnSensorReturn

SpecHoming == InitHoming /\ [][NextHoming]_vars

(***************************************************************************)
(* Claims about STEPPER_MoveHandOnSensor                                   *)
(***************************************************************************)

\* C10: the call returns ERR_OK when all sensors match the goal after k poll
\* waits with k * waitms < timeoutms, and ERR_UNDERFLOW when the sensors have
\* not all matched within timeoutms: never at any check before the return, or
\* only at a check made after more than timeoutms of waiting.
C10_HomingResult ==
  hom.pc = "returned" =>
    /\ (hom.done /\ hom.polls * hom.waitms < hom.timeoutms0) => hom.res = ERR_OK
    /\ (~hom.done \/ hom.polls * hom.waitms > hom.timeoutms0)
         => hom.res = ERR_UNDERFLOW

C10_Witness ==
  /\ hom.pc = "returned" /\ hom.done /\ hom.polls >= 2
  /\ hom.polls * hom.waitms < hom.timeoutms0 /\ hom.res = ERR_OK

\* the number of relative moves motor i got in the last round
CommandsTo(i) == Cardinality({k \in 1..Len(hom.cmds) : hom.cmds[k].motor = i})

\* C21: in every poll round exactly the motors whose sensor, read in the
\* command loop, does not match the goal get a relative move, of stepSize
\* steps and one each; a motor whose sensor matches gets none.
C21_CommandsPerRound ==
  op = "MoveHandOnSensorPoll" =>
    /\ \A i \in Motors :
         CommandsTo(i) = IF hom.sensed[i] # hom.onSensor THEN 1 ELSE 0
    /\ \A k \in 1..Len(hom.cmds) :
         hom.cmds[k].motor \in Motors /\ hom.cmds[k].steps = hom.stepSize

C21_Witness ==
  /\ op = "MoveHandOnSensorPoll" /\ hom.polls >= 2
  /\ hom.onSensor /\ hom.sensed[1] /\ ~hom.sensed[2]
  /\ hom.cmds = <<[motor |-> 2, steps |-> hom.stepSize]>>
  /\ hom.stepSize = -10

\* C25 as claimed: whenever the call returns with every sensor on the goal at
\* its final check the result is ERR_OK, and the result is ERR_UNDERFLOW only
\* if some sensor was off the goal at that check.
C25_ResultAgreesWithSensors ==
  hom.pc = "returned" =>
    /\ hom.done => hom.res = ERR_OK
    /\ hom.res = ERR_UNDERFLOW => ~hom.done

\* C25 amended: the result is ERR_OK exactly when the remaining timeout is
\* not negative at the return, and then every sensor was on the goal at the
\* final check; with every sensor on the goal at the final check the result
\* is still ERR_UNDERFLOW when the waits made have used up more than the
\* timeout.
C25_ResultFollowsTimeout ==
  hom.pc = "returned" =>
    /\ hom.res = ERR_OK <=> hom.timeoutms >= 0
    /\ hom.res = ERR_UNDERFLOW <=> hom.timeoutms < 0
    /\ hom.res = ERR_OK => hom.done
    /\ (hom.done /\ hom.res = ERR_UNDERFLOW) =>
         (hom.timeoutms0 < 0 \/ hom.polls * hom.waitms > hom.timeoutms0)

C25_Witness ==
  /\ hom.pc = "returned" /\ hom.done /\ hom.res = ERR_UNDERFLOW
  /\ hom.timeoutms0 >= 0 /\ hom.polls >= 2

\* the most poll rounds a call with a timeout >= 0 can make
MaxPolls == hom.timeoutms0 \div hom.waitms + 1

\* C20: for waitms > 0 and timeoutms >= 0, STEPPER_MoveHandOnSensor makes at
\* most floor(timeoutms / waitms) + 1 poll rounds whatever the sensors read:
\* after that many rounds the loop check breaks on the timeout alone; and no
\* round, hence no step command, starts with the remaining timeout negative.
C20_TimeBounded ==
  /\ []((hom.pc # "off" /\ hom.timeoutms0 >= 0) =>
          /\ hom.polls <= MaxPolls
          /\ (hom.pc = "loop" /\ hom.polls = MaxPolls) => hom.timeoutms < 0)
  /\ [][op' = "MoveHandOnSensorPoll" => hom.timeoutms >= 0]_vars

C20_Witness ==
  /\ hom.pc = "returned" /\ hom.timeoutms0 >= 3
  /\ hom.polls = MaxPolls /\ hom.polls >= 3
  /\ hom.cmds = <<>> /\ hom.res = ERR_UNDERFLOW

(***************************************************************************)
(* STEPPER_ZeroHand and STEPPER_SetOffsetFrom12                            *)
(***************************************************************************)
\* the activation record of a call of STEPPER_MoveHandOnSensor at its entry
HandOnSensorCall(phase) ==
  [NoHoming EXCEPT !.pc = "loop", !.onSensor = phase.onSensor,
                   !.stepSize = phase.stepSize, !.timeoutms0 = phase.timeoutms,
                   !.timeoutms = phase.timeoutms, !.waitms = phase.waitms]

\* lines 481, 486, 491: the three sensor searches of STEPPER_SetOffsetFrom12
SetOffsetPhases ==
  << [onSensor |-> TRUE,  stepSize |-> -10, timeoutms |-> 10000, waitms |-> 5],
     [onSensor |-> FALSE, stepSize |-> 1,   timeoutms |-> 10000, waitms |-> 2],
     [onSensor |-> TRUE,  stepSize |-> -1,  timeoutms |-> 10000, waitms |-> 2] >>

\* goal and step size of a search, as passed to STEPPER_MoveHandOnSensor
SearchCall(phase) == [onSensor |-> phase.onSensor, stepSize |-> phase.stepSize]

\* lines 412-416: the moves of 90 degrees, for the motors read on the sensor
EscapeCommands(sensed) == CommandsFrom(1, sensed, FALSE, DegreeToSteps(90))

\* lines 395-397: STEPPER_MoveByOffset, a relative move for every motor
OffsetCommands(offsets) == [i \in Motors |-> [motor |-> i, steps |-> offsets[i]]]

\* lines 403-405 and 467-470: X12_017_SetPos(.., 0) for every motor
SetPosZero == [i \in Motors |-> [motor |-> i, value |-> 0]]

\* lines 499-504 storing the driver positions without the negation
NewDataNotNegated(data, measured) ==
  [data EXCEPT !.zeroOffsets = [i \in Motors |-> measured[i]]]

\* lines 499-504: the copy of the persisted data with the zero offsets
\* replaced by the negated driver positions
NewData(data, measured) ==
  [data EXCEPT !.zeroOffsets = [i \in Motors |-> -measured[i]]]

\* the offsets passed to STEPPER_ZeroHand, the driver positions that
\* X12_017_GetPos returns, and the other fields of the persisted data
Offsets == {-2, 0, 3}
DrvPositions == {-3, 0, 2}
OtherData == {0, 1}

\* the searches of STEPPER_ZeroHand called in another order
ZeroHandPhasesFineFirst ==
  << [onSensor |-> FALSE, stepSize |-> -1, timeoutms |-> 10000, waitms |-> 10],
     [onSensor |-> TRUE,  stepSize |-> 10, timeoutms |-> 10000, waitms |-> 10],
     [onSensor |-> TRUE,  stepSize |-> 1,  timeoutms |-> 10000, waitms |-> 2] >>

\* lines 420, 425, 430: the three sensor searches of STEPPER_ZeroHand
ZeroHandPhases ==
  << [onSensor |-> TRUE,  stepSize |-> 10, timeoutms |-> 10000, waitms |-> 10],
     [onSensor |-> FALSE, stepSize |-> -1, timeoutms |-> 10000, waitms |-> 10],
     [onSensor |-> TRUE,  stepSize |-> 1,  timeoutms |-> 10000, waitms |-> 2] >>

\* the result variable keeps only the outcome of the last search
SearchResultOfLast(res, r) == IF r # ERR_OK THEN ERR_FAILED ELSE ERR_OK

\* lines 420-422 (and 425-427, 430-432, 481-483, 486-488): the result variable
\* after a search that returned r
SearchResult(res, r) == IF r # ERR_OK THEN ERR_FAILED ELSE res

\* the results of NVMC_WriteConfig
WriteResults == {ERR_OK, ERR_FAILED}

InitZero ==
  /\ mot = InitDevice
  /\ ret = FALSE
  /\ stepCalls = <<>>
  /\ op = "init"
  /\ plan = NoPlan
  /\ ticks = 0
  /\ allTrue = TRUE
  /\ moved = NoMoved
  /\ hom = NoHoming
  /\ \E fn \in {"ZeroHand", "SetOffsetFrom12"} :
       zero = [NoZero EXCEPT !.fn = fn, !.pc = "entry"]
  /\ absCall = NoCall

\* lines 409-420: the hands on a sensor are moved off it by 90 degrees, the
\* moves are waited for, and the first search is called
ZeroHandEnter ==
  /\ zero.fn = "ZeroHand" /\ zero.pc = "entry"
  /\ \E sensed \in [Motors -> BOOLEAN] :
       zero' = [zero EXCEPT !.pc = "search", !.res = ERR_OK,
                           !.cmds = EscapeCommands(sensed),
                           !.sensed = sensed,
                           !.calls = <<SearchCall(ZeroHandPhases[1])>>,
                           !.log = <<"escape", "MoveHandOnSensor">>]
  /\ hom' = HandOnSensorCall(ZeroHandPhases[1])
  /\ op' = "ZeroHandEnter"
  /\ UNCHANGED <<mot, ret, stepCalls, plan, ticks, allTrue, moved, absCall>>

\* lines 420-430: the first or second search has returned, the next is called
ZeroHandNextSearch ==
  /\ zero.fn = "ZeroHand" /\ zero.pc = "search"
  /\ hom.pc = "returned" /\ Len(zero.results) < 2
  /\ zero' = [zero EXCEPT !.res = SearchResult(@, hom.res),
                          !.results = Append(@, hom.res),
                          !.cmds = <<>>,
                          !.sensed = NoReading,
                          !.calls = Append(@, SearchCall(ZeroHandPhases[Len(zero.results) + 2])),
                          !.log = Append(@, "MoveHandOnSensor")]
  /\ hom' = HandOnSensorCall(ZeroHandPhases[Len(zero.results) + 2])
  /\ op' = "ZeroHandNextSearch"
  /\ UNCHANGED <<mot, ret, stepCalls, plan, ticks, allTrue, moved, absCall>>

\* lines 430-438: the third search has returned; the hands are moved by the
\* offsets, the driver positions are set to 0, and the call returns
ZeroHandFinish ==
  /\ zero.fn = "ZeroHand" /\ zero.pc = "search"
  /\ hom.pc = "returned" /\ Len(zero.results) = 2
  /\ \E offsets \in [Motors -> Offsets] :
       zero' = [zero EXCEPT !.pc = "returned",
                           !.res = SearchResult(@, hom.res),
                           !.results = Append(@, hom.res),
                           !.cmds = OffsetCommands(offsets),
                           !.sensed = NoReading,
                           !.setpos = @ \o SetPosZero,
                           !.log = @ \o <<"MoveByOffset", "SetZeroPosition">>]
  /\ hom' = NoHoming
  /\ op' = "ZeroHandFinish"
  /\ UNCHANGED <<mot, ret, stepCalls, plan, ticks, allTrue, moved, absCall>>

\* lines 460-481: the driver positions are set to 0, the delays to 8, and the
\* first search is called
SetOffsetFrom12Enter ==
  /\ zero.fn = "SetOffsetFrom12" /\ zero.pc = "entry"
  /\ zero' = [zero EXCEPT !.pc = "search", !.res = ERR_OK,
                          !.setpos = SetPosZero,
                          !.calls = <<SearchCall(SetOffsetPhases[1])>>,
                          !.log = <<"SetPos0", "MoveHandOnSensor">>]
  /\ hom' = HandOnSensorCall(SetOffsetPhases[1])
  /\ op' = "SetOffsetFrom12Enter"
  /\ UNCHANGED <<mot, ret, stepCalls, plan, ticks, allTrue, moved, absCall>>

\* lines 481-491: the first or second search has returned, the next is called
SetOffsetFrom12NextSearch ==
  /\ zero.fn = "SetOffsetFrom12" /\ zero.pc = "search"
  /\ hom.pc = "returned" /\ Len(zero.results) < 2
  /\ zero' = [zero EXCEPT !.res = SearchResult(@, hom.res),
                          !.results = Append(@, hom.res),
                          !.calls = Append(@, SearchCall(SetOffsetPhases[Len(zero.results) + 2])),
                          !.log = Append(@, "MoveHandOnSensor")]
  /\ hom' = HandOnSensorCall(SetOffsetPhases[Len(zero.results) + 2])
  /\ op' = "SetOffsetFrom12NextSearch"
  /\ UNCHANGED <<mot, ret, stepCalls, plan, ticks, allTrue, moved, absCall>>

\* lines 491-494: the third search has failed, the call returns ERR_FAILED
SetOffsetFrom12Abort ==
  /\ zero.fn = "SetOffsetFrom12" /\ zero.pc = "search"
  /\ hom.pc = "returned" /\ Len(zero.results) = 2
  /\ hom.res # ERR_OK
  /\ zero' = [zero EXCEPT !.pc = "returned", !.res = ERR_FAILED,
                          !.results = Append(@, hom.res)]
  /\ hom' = NoHoming
  /\ op' = "SetOffsetFrom12Abort"
  /\ UNCHANGED <<mot, ret, stepCalls, plan, ticks, allTrue, moved, absCall>>

\* lines 491-517: the third search has succeeded; the persisted data are
\* copied, the zero offsets in the copy are replaced by the negated driver
\* positions, and the copy is written with NVMC_WriteConfig, whose result
\* becomes the result of the call; when the write succeeded the offsets are
\* read back (they are taken to be those just written) and the hands are
\* moved by them
SetOffsetFrom12Store ==
  /\ zero.fn = "SetOffsetFrom12" /\ zero.pc = "search"
  /\ hom.pc = "returned" /\ Len(zero.results) = 2
  /\ hom.res = ERR_OK
  /\ \E written \in WriteResults, measured \in [Motors -> DrvPositions],
        other \in OtherData :
       LET data0 == [NoData EXCEPT !.other = other]
           data == NewData(data0, measured)
       IN zero' = [zero EXCEPT !.pc = "returned", !.res = written,
                      !.results = Append(@, hom.res),
                      !.measured = measured,
                      !.data0 = data0,
                      !.written = data,
                      !.cmds = IF written # ERR_OK
                                 THEN <<>>
                                 ELSE OffsetCommands(data.zeroOffsets),
                      !.log = IF written # ERR_OK
                                THEN Append(@, "NVMC_WriteConfig")
                                ELSE @ \o <<"NVMC_WriteConfig", "MoveByOffset">>]
  /\ hom' = NoHoming
  /\ op' = "SetOffsetFrom12Store"
  /\ UNCHANGED <<mot, ret, stepCalls, plan, ticks, allTrue, moved, absCall>>

NextZero ==
  \/ ZeroHandEnter
  \/ ZeroHandNextSearch
  \/ ZeroHandFinish
  \/ SetOffsetFrom12Enter
  \/ SetOffsetFrom12NextSearch
  \/ SetOffsetFrom12Abort
  \/ SetOffsetFrom12Store
  \/ MoveHandOnSensorPoll
  \/ MoveHandOnSensorReturn

SpecZero == InitZero /\ [][NextZero]_vars

(***************************************************************************)
(* Claims about STEPPER_ZeroHand and STEPPER_SetOffsetFrom12               *)
(***************************************************************************)
\* the searches that have returned something else than ERR_OK
FailedSearches == {i \in 1..Len(zero.results) : zero.results[i] # ERR_OK}

\* C11: in STEPPER_ZeroHand, once a sensor search has failed nothing more is
\* run: no later search, no move by the calibration offsets, no reset of the
\* driver position to 0.  The log then ends with the failed search, which is
\* its entry number i + 1 after the entry of the escape move.
C11_ShortCircuit ==
  zero.fn = "ZeroHand" =>
    \A i \in FailedSearches : Len(zero.log) = i + 1

\* C12: STEPPER_ZeroHand returns ERR_OK exactly when all three searches
\* returned ERR_OK, and a failure when any of them failed, whatever the later
\* searches returned.
C12_ZeroHandResult ==
  (zero.fn = "ZeroHand" /\ zero.pc = "returned") =>
    /\ Len(zero.results) = 3
    /\ zero.res \in {ERR_OK, ERR_FAILED}
    /\ zero.res = ERR_OK <=> FailedSearches = {}

C12_Witness ==
  /\ zero.fn = "ZeroHand" /\ zero.pc = "returned"
  /\ zero.results = <<ERR_UNDERFLOW, ERR_OK, ERR_OK>>
  /\ zero.res = ERR_FAILED

\* C13: in STEPPER_SetOffsetFrom12, when any of the three searches has failed
\* NVMC_WriteConfig is not invoked and the call returns a failure.
C13_AbortWithoutPersisting ==
  (zero.fn = "SetOffsetFrom12" /\ FailedSearches # {}) =>
    /\ \A k \in 1..Len(zero.log) : zero.log[k] # "NVMC_WriteConfig"
    /\ zero.pc = "returned" => zero.res # ERR_OK

\* a is an initial part of b
IsPrefix(a, b) == Len(a) <= Len(b) /\ \A k \in 1..Len(a) : a[k] = b[k]

\* the steps of STEPPER_ZeroHand and the searches it calls, as claimed
ClaimedOrder ==
  <<"escape", "MoveHandOnSensor", "MoveHandOnSensor", "MoveHandOnSensor",
    "MoveByOffset", "SetZeroPosition">>

ClaimedSearches ==
  << [onSensor |-> TRUE,  stepSize |-> 10],
     [onSensor |-> FALSE, stepSize |-> -1],
     [onSensor |-> TRUE,  stepSize |-> 1] >>

C23_PersistedOffsets ==
  (zero.fn = "SetOffsetFrom12" /\ zero.pc = "returned" /\ FailedSearches = {}) =>
    /\ Len(zero.results) = 3
    /\ zero.log[1] = "SetPos0" /\ zero.setpos = SetPosZero
    /\ zero.log[5] = "NVMC_WriteConfig"
    /\ \A i \in Motors : zero.written.zeroOffsets[i] = 0 - zero.measured[i]
    /\ zero.written.other = zero.data0.other
    /\ zero.res \in WriteResults
    /\ zero.res # ERR_OK => (Len(zero.log) = 5 /\ zero.cmds = <<>>)
    /\ zero.res = ERR_OK =>
         /\ zero.log[Len(zero.log)] = "MoveByOffset"
         /\ \A i \in Motors :
              zero.cmds[i] = [motor |-> i, steps |-> zero.written.zeroOffsets[i]]

C23_Witness ==
  /\ zero.fn = "SetOffsetFrom12" /\ zero.pc = "returned" /\ FailedSearches = {}
  /\ zero.res = ERR_OK /\ zero.data0.other = 1
  /\ zero.measured[1] = -3 /\ zero.written.zeroOffsets[1] = 3
  /\ zero.measured[2] = 2 /\ zero.written.zeroOffsets[2] = -2

====
